---- MODULE Spec2Model ----
(***************************************************************************)
(* Model of the interactive event loop of dua-cli                          *)
(* (src/interactive/app/eventloop.rs): AppState, the help pane of the      *)
(* window, and TerminalApp::process_events with every handler it calls.    *)
(*                                                                         *)
(* Option<T> is modelled as a set with at most one element: None is {} and *)
(* Some(x) is {x}.  Positions in vectors are zero-based as in the source;  *)
(* TLA+ sequences are one-based, so Get adds one.                          *)
(***************************************************************************)
EXTENDS Integers, Sequences, FiniteSets

VARIABLES
    tree,       \* self.traversal.tree: [n, parent, size, listed], node 0 is root_index
    root,       \* self.state.root
    selected,   \* self.state.selected : Option<TreeIndex>
    entries,    \* self.state.entries  : Vec<EntryDataBundle>
    sorting,    \* self.state.sorting
    message,    \* self.state.message  : Option<String>
    focussed,   \* self.state.focussed
    help_pane,  \* self.window.help_pane : Option<ReactHelpPane>
    pc,         \* position of process_events: "start", "loop", "done", "failed"
    draws,      \* number of calls of draw() made by the step just taken
    returned,   \* Option of the num_errors of the WalkResult process_events returned
    recent      \* the keys handled last by the loop, as far as the properties need them

vars == <<tree, root, selected, entries, sorting, message, focussed,
          help_pane, pc, draws, returned, recent>>

nav == <<root, selected, entries, sorting>>

----------------------------------------------------------------------------
(* Bounds of the model *)

\* small trees have at most MaxNode nodes below the root, in every shape
MaxNode == 3
\* sizes of nodes range over 1..MaxSize
MaxSize == 3
\* a flat tree has MaxWide - 1 or MaxWide children below the root
MaxWide == 12

\* usize::MAX, scaled down; never smaller than a position in a list
USIZE_MAX == MaxWide

----------------------------------------------------------------------------
(* Option and integer helpers *)

None == {}
Some(x) == {x}
Unwrap(o) == CHOOSE x \in o : TRUE

Min(a, b) == IF a < b THEN a ELSE b
Max(a, b) == IF a > b THEN a ELSE b

saturating_add(a, b) == Min(a + b, USIZE_MAX)

saturating_sub_wrapping(a, b) == IF a >= b THEN a - b ELSE USIZE_MAX + 1 + a - b
saturating_sub(a, b) == IF a >= b THEN a - b ELSE 0

\* the stride of a page movement
PageStride == 10

Directions == {"PageDown", "Down", "Up", "PageUp"}

----------------------------------------------------------------------------
(* The directory tree *)

root_index == 0

Children(t, node) == {i \in 1..t.n : t.parent[i] = node}

\* neighbors_directed(node, Incoming).next()
ParentOf(t, node) == IF node \in 1..t.n THEN Some(t.parent[node]) ELSE None

----------------------------------------------------------------------------
(* SortMode and sorted_entries *)

DefaultSortMode == "SizeAscending"

toggle_size(s) == IF s = "SizeAscending" THEN "SizeDescending" ELSE "SizeAscending"

\* strict order of two children under a sort mode; the sort is stable, so
\* children of equal size keep the order of their node references
Before(t, mode, a, b) ==
    IF t.size[a] # t.size[b]
    THEN IF mode = "SizeAscending" THEN t.size[a] < t.size[b]
                                   ELSE t.size[a] > t.size[b]
    ELSE a < b

Bundle(t, i) == [index |-> i, size |-> t.size[i]]

\* the bundles of a set of nodes, in the order of a sort mode
RECURSIVE Sorted(_, _, _)
Sorted(t, mode, ch) ==
    IF ch = {} THEN << >>
    ELSE LET first == CHOOSE i \in ch : \A j \in ch \ {i} : Before(t, mode, i, j)
         IN  <<Bundle(t, first)>> \o Sorted(t, mode, ch \ {first})

SortModes == {"SizeAscending", "SizeDescending"}

\* the listing of every node under every sort mode depends on the tree alone:
\* it is worked out once per tree and looked up by sorted_entries; io_errors
\* is the number of errors the walk has met, some number known with the tree
WithListings(t) ==
    [n |-> t.n, parent |-> t.parent, size |-> t.size, io_errors |-> t.n % 2,
     listed |-> [mode \in SortModes |->
                    [node \in 0..t.n |-> Sorted(t, mode, Children(t, node))]]]

sorted_entries(t, node, mode) == t.listed[mode][node]

\* every shape of a tree with k nodes below the root: the parent of a node
\* is a node discovered before it
Shapes(k) == {f \in [1..k -> 0..(k-1)] : \A i \in 1..k : f[i] < i}

\* every assignment of sizes
AllSizes(k) == [1..k -> 1..MaxSize]

\* all nodes of one size, and the assignments that step through the sizes
SteppedSizes(k) ==
    {[i \in 1..k |-> 1]} \cup
    {[i \in 1..k |-> ((i * m) % MaxSize) + 1] : m \in 1..(MaxSize-1)}

SmallTrees(all) ==
    UNION {{[n |-> k, parent |-> p, size |-> s] :
                p \in Shapes(k),
                s \in IF all THEN AllSizes(k) ELSE SteppedSizes(k)} :
           k \in 0..MaxNode}

WideTrees ==
    { [n |-> k, parent |-> [i \in 1..k |-> 0],
       size |-> [i \in 1..k |-> (i % MaxSize) + 1]] : k \in (MaxWide-1)..MaxWide }

\* the trees the key sequences are explored on
Trees == {WithListings(t) : t \in SmallTrees(FALSE) \cup WideTrees}

\* the trees the movement keys alone are explored on
MoveTrees == {WithListings(t) : t \in SmallTrees(TRUE) \cup WideTrees}

----------------------------------------------------------------------------
(* Vec and Option operations *)

\* Vec::get with a zero-based position
Get(v, pos) == IF pos >= 0 /\ pos < Len(v) THEN Some(v[pos + 1]) ELSE None
Last(v) == IF Len(v) > 0 THEN Some(v[Len(v)]) ELSE None
Indices(v) == {v[k].index : k \in 1..Len(v)}
\* find_position(|b| b.index == s): zero-based position of the first match
FindPosition(v, s) ==
    LET hits == {k \in 1..Len(v) : v[k].index = s}
    IN  IF hits = {} THEN None
        ELSE Some((CHOOSE k \in hits : \A j \in hits : k <= j) - 1)
OrElse(a, b) == IF a # None THEN a ELSE b
MapIndex(o) == {b.index : b \in o}

----------------------------------------------------------------------------
(* The handlers of TerminalApp, as functions of the fields they read *)

\* draw(): Ok(()) or Err; the window is handed back as it was
DrawResults == {"loop", "failed"}

cycle_focus_eager(f, hp) == IF f = "Main" THEN "Help" ELSE "Main"
cycle_focus_sticky(f, hp) == IF hp # None THEN "Help" ELSE "Main"
cycle_focus(f, hp) ==
    IF f = "Main" /\ hp # None THEN "Help"
    ELSE "Main"

DefaultHelpPane == [scroll |-> 0]

scroll_help_unsaturated(hp, direction) ==
    IF hp = None THEN hp
    ELSE LET s == Unwrap(hp).scroll
         IN  Some([scroll |->
                CASE direction = "Down"     -> saturating_add(s, 1)
                  [] direction = "Up"       -> s - 1
                  [] direction = "PageDown" -> saturating_add(s, PageStride)
                  [] direction = "PageUp"   -> s - PageStride])

\* scroll_help: the new value of window.help_pane
scroll_help(hp, direction) ==
    IF hp = None THEN hp
    ELSE LET s == Unwrap(hp).scroll
         IN  Some([scroll |->
                CASE direction = "Down"     -> saturating_add(s, 1)
                  [] direction = "Up"       -> saturating_sub(s, 1)
                  [] direction = "PageDown" -> saturating_add(s, PageStride)
                  [] direction = "PageUp"   -> saturating_sub(s, PageStride)])

\* change_entry_selection, first half: next_selected_pos
NextSelectedPos(ents, sel, direction) ==
    IF sel = None THEN 0
    ELSE LET found == FindPosition(ents, Unwrap(sel))
         IN  IF found = None THEN 0
             ELSE LET idx == Unwrap(found)
                  IN  CASE direction = "PageDown" -> saturating_add(idx, PageStride)
                        [] direction = "Down"     -> saturating_add(idx, 1)
                        [] direction = "Up"       -> saturating_sub(idx, 1)
                        [] direction = "PageUp"   -> saturating_sub(idx, PageStride)

\* change_entry_selection, second half: the new value of state.selected
ResolveSelectionRootFallback(ents, pos, sel, r) ==
    OrElse(MapIndex(OrElse(Get(ents, pos), Last(ents))), Some(r))
ResolveSelection(ents, pos, sel, r) ==
    OrElse(MapIndex(OrElse(Get(ents, pos), Last(ents))), sel)

change_entry_selection(t, r, sel, mode, direction) ==
    LET ents == sorted_entries(t, r, mode)
    IN  ResolveSelection(ents, NextSelectedPos(ents, sel, direction), sel, r)

enter_node_root_first(t, r, sel, ents, mode) ==
    IF sel = None
    THEN [entries |-> ents, root |-> r, selected |-> sel, message |-> None]
    ELSE LET new_root == Unwrap(sel)
             listed == sorted_entries(t, new_root, mode)
         IN  IF Get(listed, 0) # None
             THEN [entries |-> listed, root |-> new_root,
                   selected |-> Some(Unwrap(Get(listed, 0)).index), message |-> None]
             ELSE [entries |-> listed, root |-> new_root, selected |-> sel,
                   message |-> Some("Entry is a file or an empty directory")]

enter_node_default_sorting(t, r, sel, ents, mode) ==
    IF sel = None
    THEN [entries |-> ents, root |-> r, selected |-> sel, message |-> None]
    ELSE LET new_root == Unwrap(sel)
             listed == sorted_entries(t, new_root, DefaultSortMode)
         IN  IF Get(listed, 0) # None
             THEN [entries |-> listed, root |-> new_root,
                   selected |-> Some(Unwrap(Get(listed, 0)).index), message |-> None]
             ELSE [entries |-> listed, root |-> r, selected |-> sel,
                   message |-> Some("Entry is a file or an empty directory")]

\* enter_node: the new values of entries, root, selected and message
enter_node(t, r, sel, ents, mode) ==
    IF sel = None
    THEN [entries |-> ents, root |-> r, selected |-> sel, message |-> None]
    ELSE LET new_root == Unwrap(sel)
             listed == sorted_entries(t, new_root, mode)
         IN  IF Get(listed, 0) # None
             THEN [entries |-> listed, root |-> new_root,
                   selected |-> Some(Unwrap(Get(listed, 0)).index), message |-> None]
             ELSE [entries |-> listed, root |-> r, selected |-> sel,
                   message |-> Some("Entry is a file or an empty directory")]

exit_node_relisting(t, r, sel, ents, mode) ==
    LET parent == ParentOf(t, r)
    IN  IF parent # None
        THEN LET parent_idx == Unwrap(parent)
                 listed == sorted_entries(t, parent_idx, mode)
             IN  [entries |-> listed, root |-> parent_idx,
                  selected |-> MapIndex(Get(listed, 0)), message |-> None]
        ELSE [entries |-> sorted_entries(t, r, mode), root |-> r, selected |-> sel,
              message |-> Some("Top level reached")]

exit_node_selecting_last(t, r, sel, ents, mode) ==
    LET parent == ParentOf(t, r)
    IN  IF parent # None
        THEN LET parent_idx == Unwrap(parent)
                 listed == sorted_entries(t, parent_idx, mode)
             IN  [entries |-> listed, root |-> parent_idx,
                  selected |-> MapIndex(Last(listed)), message |-> None]
        ELSE [entries |-> ents, root |-> r, selected |-> sel,
              message |-> Some("Top level reached")]

exit_node_keeping_selection(t, r, sel, ents, mode) ==
    LET parent == ParentOf(t, r)
    IN  IF parent # None
        THEN LET parent_idx == Unwrap(parent)
                 listed == sorted_entries(t, parent_idx, mode)
             IN  [entries |-> listed, root |-> parent_idx,
                  selected |-> sel, message |-> None]
        ELSE [entries |-> ents, root |-> r, selected |-> sel,
              message |-> Some("Top level reached")]

\* exit_node: the new values of entries, root, selected and message
exit_node(t, r, sel, ents, mode) ==
    LET parent == ParentOf(t, r)
    IN  IF parent # None
        THEN LET parent_idx == Unwrap(parent)
                 listed == sorted_entries(t, parent_idx, mode)
             IN  [entries |-> listed, root |-> parent_idx,
                  selected |-> MapIndex(Get(listed, 0)), message |-> None]
        ELSE [entries |-> ents, root |-> r, selected |-> sel,
              message |-> Some("Top level reached")]

\* initialize: the selection of the state the loop starts from
InitialSelection(ents) == MapIndex(Get(ents, 0))

----------------------------------------------------------------------------
(* What the loop remembers of the keys it has just handled *)

NoRecent == [kind |-> "none", r |-> 0, n |-> 0, before |-> << >>]

----------------------------------------------------------------------------
(* Initial state: TerminalApp::initialize has returned *)

InitOn(ts) ==
    /\ tree \in ts
    /\ root = root_index
    /\ sorting = DefaultSortMode
    /\ entries = sorted_entries(tree, root_index, DefaultSortMode)
    /\ selected = InitialSelection(sorted_entries(tree, root_index, DefaultSortMode))
    /\ message = None
    /\ focussed = "Main"
    /\ help_pane = None
    /\ pc = "start"
    /\ draws = 0
    /\ returned = None
    /\ recent = NoRecent

Init == InitOn(Trees)

InitMove == InitOn(MoveTrees)

----------------------------------------------------------------------------
(* process_events *)

\* self.draw(terminal)?: one call of draw; an Err leaves process_events with it
Draw ==
    /\ pc' \in DrawResults
    /\ draws' = 1
    /\ returned' = None

\* break, then Ok(WalkResult { num_errors: self.traversal.io_errors })
Break ==
    /\ pc' = "done"
    /\ draws' = 0
    /\ returned' = Some(tree.io_errors)

\* the draw before the first key is read
InitialDraw ==
    /\ pc = "start"
    /\ Draw
    /\ UNCHANGED <<tree, root, selected, entries, sorting, message, focussed,
                   help_pane, recent>>

\* the key replaced an overlay that had been scrolled
HelpReset == focussed = "Main" /\ \E p \in help_pane : p.scroll > 0

HelpToggleKeepingPane ==
    /\ pc = "loop"
    /\ message' = None
    /\ IF focussed = "Main"
       THEN help_pane' = OrElse(help_pane, Some(DefaultHelpPane)) /\ focussed' = "Help"
       ELSE help_pane' = None /\ focussed' = "Main"
    /\ recent' = IF HelpReset THEN [NoRecent EXCEPT !.kind = "helpReset"] ELSE NoRecent
    /\ Draw
    /\ UNCHANGED <<tree, root, selected, entries, sorting>>

\* Char('?')
HelpToggle ==
    /\ pc = "loop"
    /\ message' = None
    /\ IF focussed = "Main"
       THEN help_pane' = Some(DefaultHelpPane) /\ focussed' = "Help"
       ELSE help_pane' = None /\ focussed' = "Main"
    /\ recent' = IF HelpReset THEN [NoRecent EXCEPT !.kind = "helpReset"] ELSE NoRecent
    /\ Draw
    /\ UNCHANGED <<tree, root, selected, entries, sorting>>

CycleFocusKeepingMessage ==
    /\ pc = "loop"
    /\ focussed' = cycle_focus(focussed, help_pane)
    /\ recent' = NoRecent
    /\ Draw
    /\ UNCHANGED <<tree, root, selected, entries, sorting, message, help_pane>>

CycleFocusWithoutDraw ==
    /\ pc = "loop"
    /\ message' = None
    /\ focussed' = cycle_focus(focussed, help_pane)
    /\ recent' = NoRecent
    /\ UNCHANGED <<tree, root, selected, entries, sorting, help_pane, pc, returned>>
    /\ draws' = 0

\* Char('\t')
CycleFocus ==
    /\ pc = "loop"
    /\ message' = None
    /\ focussed' = cycle_focus(focussed, help_pane)
    /\ recent' = NoRecent
    /\ Draw
    /\ UNCHANGED <<tree, root, selected, entries, sorting, help_pane>>

InterruptInMainOnly ==
    /\ pc = "loop"
    /\ message' = None
    /\ recent' = NoRecent
    /\ IF focussed = "Main" THEN Break ELSE Draw
    /\ UNCHANGED <<tree, root, selected, entries, sorting, focussed,
                   help_pane>>

\* Ctrl('c'): break
Interrupt ==
    /\ pc = "loop"
    /\ message' = None
    /\ recent' = NoRecent
    /\ Break
    /\ UNCHANGED <<tree, root, selected, entries, sorting, focussed,
                   help_pane>>

QuitLeavingTheLoop ==
    /\ pc = "loop"
    /\ message' = None
    /\ recent' = [NoRecent EXCEPT !.kind = IF recent.kind = "quit" THEN "quitTwice"
                                                                 ELSE "quit"]
    /\ Break
    /\ UNCHANGED <<tree, root, selected, entries, sorting, focussed, help_pane>>

\* Char('q')
Quit ==
    /\ pc = "loop"
    /\ message' = None
    /\ recent' = [NoRecent EXCEPT !.kind = IF recent.kind = "quit" THEN "quitTwice"
                                                                 ELSE "quit"]
    /\ IF focussed = "Main"
       THEN Break /\ UNCHANGED <<focussed, help_pane>>
       ELSE focussed' = "Main" /\ help_pane' = None /\ Draw
    /\ UNCHANGED <<tree, root, selected, entries, sorting>>

\* Char('O'): open::that on the selected path, its result ignored
OpenThat ==
    /\ pc = "loop"
    /\ message' = None
    /\ recent' = NoRecent
    /\ Draw
    /\ UNCHANGED <<tree, root, selected, entries, sorting, focussed,
                   help_pane>>

\* Char('u')
ExitNode ==
    /\ pc = "loop"
    /\ IF focussed = "Main"
       THEN LET res == exit_node(tree, root, selected, entries, sorting)
            IN  /\ entries' = res.entries
                /\ root' = res.root
                /\ selected' = res.selected
                /\ message' = res.message
                /\ recent' = IF recent.kind = "entered"
                             THEN [recent EXCEPT !.kind = "returned"]
                             ELSE NoRecent
       ELSE /\ message' = None
            /\ recent' = NoRecent
            /\ UNCHANGED <<entries, root, selected>>
    /\ Draw
    /\ UNCHANGED <<tree, sorting, focussed, help_pane>>

\* Char('o')
EnterNode ==
    /\ pc = "loop"
    /\ IF focussed = "Main"
       THEN LET res == enter_node(tree, root, selected, entries, sorting)
            IN  /\ entries' = res.entries
                /\ root' = res.root
                /\ selected' = res.selected
                /\ message' = res.message
                /\ recent' = IF res.root # root
                             THEN [kind |-> "entered", r |-> root,
                                   n |-> res.root, before |-> << >>]
                             ELSE NoRecent
       ELSE /\ message' = None
            /\ recent' = NoRecent
            /\ UNCHANGED <<entries, root, selected>>
    /\ Draw
    /\ UNCHANGED <<tree, sorting, focussed, help_pane>>

MoveKeyIgnoringFocus(direction) ==
    /\ pc = "loop"
    /\ message' = None
    /\ selected' = change_entry_selection(tree, root, selected, sorting, direction)
    /\ recent' = IF recent.kind = "toggled"
                 THEN [recent EXCEPT !.kind = "toggledMoved"]
                 ELSE NoRecent
    /\ help_pane' = IF focussed = "Main" THEN help_pane
                    ELSE scroll_help(help_pane, direction)
    /\ Draw
    /\ UNCHANGED <<tree, root, entries, sorting, focussed>>

\* Ctrl('u'), Char('k'), Char('j'), Ctrl('d')
MoveKey(direction) ==
    /\ pc = "loop"
    /\ message' = None
    /\ IF focussed = "Main"
       THEN /\ selected' = change_entry_selection(tree, root, selected, sorting, direction)
            /\ recent' = IF recent.kind = "toggled"
                         THEN [recent EXCEPT !.kind = "toggledMoved"]
                         ELSE NoRecent
            /\ UNCHANGED help_pane
       ELSE /\ help_pane' = scroll_help(help_pane, direction)
            /\ recent' = NoRecent
            /\ UNCHANGED selected
    /\ Draw
    /\ UNCHANGED <<tree, root, entries, sorting, focussed>>

Move == \E direction \in Directions : MoveKey(direction)

\* Char('s')
ToggleSort ==
    /\ pc = "loop"
    /\ message' = None
    /\ IF focussed = "Main"
       THEN /\ sorting' = toggle_size(sorting)
            /\ recent' = [kind |-> "toggled", r |-> root, n |-> 0, before |-> entries]
       ELSE /\ recent' = NoRecent
            /\ UNCHANGED sorting
    /\ Draw
    /\ UNCHANGED <<tree, root, selected, entries, focussed, help_pane>>

\* Char('g'): display.byte_vis.cycle() changes how sizes are drawn, nothing the loop reads
CycleByteVis ==
    /\ pc = "loop"
    /\ message' = None
    /\ recent' = NoRecent
    /\ Draw
    /\ UNCHANGED <<tree, root, selected, entries, sorting, focussed, help_pane>>

\* any other key: no arm of the three matches but _ => {}
OtherKey ==
    /\ pc = "loop"
    /\ message' = None
    /\ recent' = NoRecent
    /\ Draw
    /\ UNCHANGED <<tree, root, selected, entries, sorting, focussed, help_pane>>

\* the key stream ends: the for loop is left
EndOfKeys ==
    /\ pc = "loop"
    /\ Break
    /\ UNCHANGED <<tree, root, selected, entries, sorting, message, focussed,
                   help_pane, recent>>

Next ==
    \/ InitialDraw
    \/ HelpToggle
    \/ CycleFocus
    \/ Interrupt
    \/ Quit
    \/ OpenThat
    \/ ExitNode
    \/ EnterNode
    \/ Move
    \/ ToggleSort
    \/ CycleByteVis
    \/ OtherKey
    \/ EndOfKeys

Spec == Init /\ [][Next]_vars

\* only movement keys are pressed
NextMove == InitialDraw \/ Move

SpecMove == InitMove /\ [][NextMove]_vars

\* change_entry_selection on every navigation state of the type, also those
\* no key sequence leads to: any node as root, any node or none as selection
InitSelect ==
    /\ tree \in Trees
    /\ root \in 0..tree.n
    /\ sorting \in SortModes
    /\ entries = sorted_entries(tree, root, sorting)
    /\ selected \in {None} \cup {Some(i) : i \in 0..tree.n}
    /\ message = None
    /\ focussed = "Main"
    /\ help_pane = None
    /\ pc = "start"
    /\ draws = 0
    /\ returned = None
    /\ recent = NoRecent

SpecSelect == InitSelect /\ [][NextMove]_vars

TypeOK ==
    /\ tree.n \in 0..Max(MaxNode, MaxWide)
    /\ root \in 0..tree.n
    /\ selected \subseteq 0..tree.n
    /\ sorting \in SortModes
    /\ focussed \in {"Main", "Help"}
    /\ help_pane \subseteq [scroll : 0..USIZE_MAX]
    /\ pc \in {"start", "loop", "done", "failed"}
    /\ draws \in {0, 1}
    /\ returned \subseteq {0, 1}

----------------------------------------------------------------------------
(* Properties *)

\* the stride of a direction, as a signed number
Delta(direction) ==
    CASE direction = "Up"       -> -1
      [] direction = "Down"     -> 1
      [] direction = "PageUp"   -> -PageStride
      [] direction = "PageDown" -> PageStride

\* zero-based position of node s in a list that holds it
PosOf(list, s) == (CHOOSE k \in 1..Len(list) : list[k].index = s) - 1

ChildList == sorted_entries(tree, root, sorting)

SelectedIsLeaf == selected # None /\ Children(tree, Unwrap(selected)) = {}

TopNotice == Some("Top level reached")
LeafNotice == Some("Entry is a file or an empty directory")

\* C1: after every key, selected is None or the index of an element of entries.
\* enter_node overwrites entries with the (empty) child list of a leaf before it
\* finds the list empty, so this does not hold of the code.
C1_SelectedInEntries ==
    selected = None \/ Unwrap(selected) \in Indices(entries)

\* C2 as stated: focus is Help if and only if the help overlay exists.
C2_FocusIffOverlay ==
    (focussed = "Help") <=> (help_pane # None)

\* C2, amended: focus is Help only while the help overlay exists; the overlay
\* may exist while focus is Main (cycle_focus leaves it in place).
C2_HelpImpliesOverlay ==
    focussed = "Help" => help_pane # None

\* focus is Help on an overlay that has been scrolled
C2_Witness ==
    /\ focussed = "Help"
    /\ help_pane # None
    /\ pc = "loop"
    /\ \E p \in help_pane : p.scroll > 0

\* C3: a movement key in Main focus with selected at position p of root's
\* sorted child list of length n > 0 selects the entry at position
\* min(max(p + d, 0), n - 1); with an empty list selected keeps its value.
C3_MovementClamps ==
    [][\A direction \in Directions :
        (focussed = "Main" /\ pc = "loop" /\ message' = None /\ pc' # "done"
            /\ UNCHANGED <<root, entries, sorting, help_pane>> /\ MoveKey(direction)) =>
            LET list == ChildList
                n == Len(list)
            IN  IF n = 0 THEN selected' = selected
                ELSE (selected # None /\ Unwrap(selected) \in Indices(list)) =>
                     LET p == PosOf(list, Unwrap(selected))
                     IN  selected' =
                           Some(list[Min(Max(p + Delta(direction), 0), n - 1) + 1].index)
      ]_vars

\* on a flat tree only movement keys change the selection: a page down from
\* the first entry of a list longer than the stride has selected position 10
C3_Witness ==
    /\ pc = "loop"
    /\ focussed = "Main"
    /\ Len(ChildList) > PageStride + 1
    /\ selected = Some(ChildList[PageStride + 1].index)

\* C4: under movement keys alone, selected is None (and then entries is empty)
\* or the index of an element of entries.
C4_SelectionStaysValid ==
    IF selected = None THEN entries = << >>
    ELSE Unwrap(selected) \in Indices(entries)

\* a movement key has moved the selection off the first entry
C4_Witness ==
    /\ pc = "loop"
    /\ Len(entries) > 1
    /\ selected # None
    /\ selected # Some(entries[1].index)
    /\ Unwrap(selected) \in Indices(entries)

\* C5: exit-directory in Main focus at the top of the tree leaves root,
\* selected and entries as they were and sets the notice "Top level reached".
C5_AscendAtTop ==
    [][(ExitNode /\ focussed = "Main" /\ ParentOf(tree, root) = None) =>
        /\ root' = root
        /\ selected' = selected
        /\ entries' = entries
        /\ message' = TopNotice
        /\ message' # None
      ]_vars

C5_Witness ==
    /\ message = TopNotice
    /\ root = root_index
    /\ entries # ChildList

\* C6: enter-directory in Main focus on a selected node without children
\* leaves root and selected as they were and sets the notice "Entry is a file
\* or an empty directory"; with no selection it changes nothing and sets no message.
C6_DescendIntoLeaf ==
    [][(EnterNode /\ focussed = "Main") =>
        /\ SelectedIsLeaf =>
             /\ root' = root
             /\ selected' = selected
             /\ message' = LeafNotice
             /\ message' # None
        /\ selected = None =>
             /\ UNCHANGED <<root, selected, entries, sorting, focussed, help_pane>>
             /\ message' = None
      ]_vars

C6_Witness ==
    /\ message = LeafNotice
    /\ SelectedIsLeaf
    /\ root # root_index

\* C7: enter-directory on a selected node without children changes no field
\* of the navigation state other than message: entries, root, selected, sorting
\* and focus are as before the key.  The code replaces entries by the empty
\* child list of the leaf.
C7_LeafLeavesEntries ==
    [][(EnterNode /\ focussed = "Main" /\ SelectedIsLeaf) =>
        /\ entries' = entries
        /\ root' = root
        /\ selected' = selected
        /\ sorting' = sorting
        /\ focussed' = focussed
      ]_vars

\* C8 as stated: exit-directory right after a successful enter-directory from
\* root r on node n restores root r and selects n.
C8_ExitSelectsEntered ==
    recent.kind = "returned" =>
        /\ root = recent.r
        /\ selected = Some(recent.n)

\* C8, amended: exit-directory right after a successful enter-directory from
\* root r on node n restores root r and selects the first entry of r's child
\* list under the current sort mode, which is n only if n is first in that list.
C8_ExitSelectsFirst ==
    recent.kind = "returned" =>
        /\ root = recent.r
        /\ entries = sorted_entries(tree, recent.r, sorting)
        /\ recent.n \in Indices(entries)
        /\ selected = Some(entries[1].index)
        /\ (selected = Some(recent.n)) <=> (PosOf(entries, recent.n) = 0)

\* the entered node was not the first of its list: the exit selected another
C8_Witness ==
    /\ recent.kind = "returned"
    /\ root = recent.r
    /\ selected # Some(recent.n)

\* number of different sizes among the children of root
DifferentSizes == Cardinality({tree.size[i] : i \in Children(tree, root)})

\* C9: after toggle-sort followed by a movement key, entries is root's child
\* list under the new sort mode, so with at least 3 differently-sized children
\* its order differs from the order before the toggle.  The code computes the
\* new list in change_entry_selection and never stores it.
C9_MovementRebuildsEntries ==
    recent.kind = "toggledMoved" =>
        /\ entries = ChildList
        /\ DifferentSizes >= 3 => entries # recent.before

\* C10: quit in Help focus sets focus to Main, destroys the overlay, leaves
\* root, selected, entries and sorting alone and keeps the loop going (the
\* loop is only left if the redraw fails); quit in Main focus ends the loop,
\* and an ended loop handles no further key.
C10_QuitByFocus ==
    [][/\ Quit =>
            IF focussed = "Help"
            THEN /\ focussed' = "Main"
                 /\ help_pane' = None
                 /\ pc' # "done"
                 /\ UNCHANGED nav
            ELSE pc' = "done"
       /\ pc \in {"done", "failed"} => UNCHANGED vars
      ]_vars

\* quit has closed the help pane and the loop goes on
C10_Witness ==
    /\ recent.kind = "quit"
    /\ pc = "loop"
    /\ focussed = "Main"
    /\ help_pane = None

\* C11: help-toggle in Main focus gives focus Help and an overlay whose scroll
\* is 0, also when an overlay with another scroll existed; help-toggle in Help
\* focus gives focus Main and no overlay; root, selected, entries and sorting
\* are unchanged by both.
C11_HelpToggle ==
    [][HelpToggle =>
        /\ IF focussed = "Main"
           THEN focussed' = "Help" /\ help_pane' = Some([scroll |-> 0])
           ELSE focussed' = "Main" /\ help_pane' = None
        /\ UNCHANGED nav
      ]_vars

\* help-toggle in Main focus has replaced an overlay that had been scrolled
C11_Witness ==
    /\ recent.kind = "helpReset"
    /\ focussed = "Help"
    /\ help_pane = Some([scroll |-> 0])

\* C12: the scroll of the help overlay is never below 0.  In Help focus up and
\* page-up subtract 1 and 10 and stop at 0, down and page-down add 1 and 10 and
\* stop at the largest integer; nothing else changes the scroll of an overlay,
\* and an overlay is created with scroll 0.
C12_ScrollSaturates ==
    [][/\ \A p \in help_pane' : p.scroll >= 0
       /\ \A direction \in Directions :
            (focussed = "Help" /\ pc = "loop" /\ UNCHANGED <<nav, focussed>>
                /\ MoveKey(direction)) =>
              help_pane' =
                {[scroll |-> Min(Max(p.scroll + Delta(direction), 0), USIZE_MAX)] :
                    p \in help_pane}
       /\ (help_pane # None /\ help_pane' # None /\ help_pane' # help_pane) =>
              \/ focussed = "Help" /\ Move
              \/ focussed = "Main" /\ HelpToggle /\ help_pane' = Some([scroll |-> 0])
       /\ (help_pane = None /\ help_pane' # None) => help_pane' = Some([scroll |-> 0])
      ]_vars

\* the overlay has been scrolled down until the scroll stopped at the largest integer
C12_Witness ==
    /\ focussed = "Help"
    /\ pc = "loop"
    /\ help_pane = Some([scroll |-> USIZE_MAX])

\* exit-directory in Main focus at the top of the tree
FailedAscend == focussed = "Main" /\ ParentOf(tree, root) = None /\ ExitNode

\* enter-directory in Main focus on a selected node without children
FailedDescend == focussed = "Main" /\ SelectedIsLeaf /\ EnterNode

\* C13: after any processed key, message is non-empty if and only if that key
\* was, in Main focus, an exit-directory at the top of the tree or an
\* enter-directory on a selected node without children; every key starts by
\* clearing message, so no message outlives the key after it.
C13_MessageOnlyFromFailedNavigation ==
    [][(pc = "loop" /\ ~EndOfKeys) =>
        (message' # None <=> (FailedAscend \/ FailedDescend))
      ]_vars

\* a notice is shown while the overlay exists behind Main focus
C13_Witness ==
    /\ message = TopNotice
    /\ pc = "loop"
    /\ focussed = "Main"
    /\ help_pane # None

\* C14: the loop draws once before it reads the first key and once after
\* every key that does not end the loop, before the next key is read; a key
\* that ends the loop is followed by no draw; when a draw fails the loop ends
\* at once, no further key is handled and no WalkResult is returned.
C14_RedrawDiscipline ==
    [][/\ pc = "start" =>
            /\ draws' = 1
            /\ pc' \in {"loop", "failed"}
            /\ UNCHANGED <<nav, message, focussed, help_pane>>
       /\ pc = "loop" =>
            IF pc' = "done" THEN draws' = 0
            ELSE draws' = 1 /\ pc' \in {"loop", "failed"}
       /\ pc \in {"failed", "done"} => UNCHANGED vars
       /\ pc' = "failed" => returned' = None
      ]_vars

\* the draw after a key has failed
C14_Witness ==
    /\ pc = "failed"
    /\ draws = 1
    /\ returned = None
    /\ help_pane # None

\* list e holds exactly the children of node, each once, in the order of mode
IsListing(e, node, mode) ==
    /\ Len(e) = Cardinality(Children(tree, node))
    /\ Indices(e) = Children(tree, node)
    /\ \A k \in 1..Len(e) : e[k].size = tree.size[e[k].index]
    /\ \A j, k \in 1..Len(e) : j < k => Before(tree, mode, e[j].index, e[k].index)

\* C15: after a successful exit-directory root is the parent p of the old
\* root, entries is p's child list under the current sort mode and selected is
\* its first element; after a successful enter-directory on selected n the
\* same holds with n for p; selected is not None in either case.
C15_SuccessfulNavigation ==
    [][/\ (focussed = "Main" /\ pc = "loop" /\ ParentOf(tree, root) # None /\ ExitNode) =>
            /\ root' = Unwrap(ParentOf(tree, root))
            /\ IsListing(entries', root', sorting)
            /\ selected' # None
            /\ selected' = Some(entries'[1].index)
       /\ (focussed = "Main" /\ pc = "loop" /\ selected # None
                /\ ~SelectedIsLeaf /\ EnterNode) =>
            /\ root' = Unwrap(selected)
            /\ IsListing(entries', root', sorting)
            /\ selected' # None
            /\ selected' = Some(entries'[1].index)
      ]_vars

\* a directory was entered after a sort toggle: its list is in descending order
C15_Witness ==
    /\ recent.kind = "entered"
    /\ sorting = "SizeDescending"
    /\ Len(entries) >= 2
    /\ entries[1].size > entries[2].size
    /\ selected = Some(entries[1].index)

\* C16: cycle-focus in Main focus moves focus to Help only if an overlay
\* exists and otherwise leaves it Main; cycle-focus in Help focus moves focus
\* to Main; it never creates, destroys or scrolls the overlay and leaves root,
\* selected, entries and sorting unchanged.
C16_CycleFocus ==
    [][CycleFocus =>
        /\ (focussed = "Main" /\ help_pane # None) => focussed' = "Help"
        /\ (focussed = "Main" /\ help_pane = None) => focussed' = "Main"
        /\ focussed = "Help" => focussed' = "Main"
        /\ UNCHANGED <<help_pane, nav>>
      ]_vars

\* cycle-focus has left Help focus: the scrolled overlay is still there
C16_Witness ==
    /\ focussed = "Main"
    /\ pc = "loop"
    /\ \E p \in help_pane : p.scroll > 0

\* the keys of the Main pane other than the movement keys
MainOnlyKey == ExitNode \/ EnterNode \/ ToggleSort \/ OpenThat \/ CycleByteVis

\* C17: in Help focus the movement keys change only the scroll of the overlay
\* and exit-directory, enter-directory, toggle-sort, open-external and
\* byte-visualization change nothing, so root, selected, entries and sorting
\* stay; in Main focus the movement keys leave the overlay alone; and a key
\* other than help-toggle, cycle-focus and quit changes neither focus nor
\* whether an overlay exists.  (Each line is stated from the change: a step
\* that makes the change is not a step of those keys.)
C17_PaneIsolation ==
    [][/\ (focussed = "Help" /\ pc = "loop" /\ ~UNCHANGED nav) =>
            ~(Move \/ MainOnlyKey)
       /\ (focussed = "Help" /\ pc = "loop" /\ help_pane' # help_pane) =>
            ~MainOnlyKey
       /\ (focussed = "Main" /\ pc = "loop" /\ help_pane' # help_pane) =>
            ~Move
       /\ (pc = "loop" /\ (focussed' # focussed
                              \/ (help_pane' = None) # (help_pane = None))) =>
            ~(Move \/ MainOnlyKey \/ OtherKey \/ Interrupt)
      ]_vars

\* the overlay was scrolled in Help focus after the sort mode was toggled in Main focus
C17_Witness ==
    /\ focussed = "Help"
    /\ pc = "loop"
    /\ sorting = "SizeDescending"
    /\ \E p \in help_pane : p.scroll > 1
    /\ selected # None

C19_SelectionUnderRoot ==
    /\ selected # None => Unwrap(selected) \in Children(tree, root)
    /\ selected = None => Children(tree, root) = {}
    /\ root = root_index \/ Children(tree, root) # {}

\* the view has descended two levels below the root of the tree
C19_Witness ==
    /\ root # root_index
    /\ ParentOf(tree, root) # Some(root_index)
    /\ selected # None
    /\ pc = "loop"

\* C20: the loop ends exactly on the interrupt key in any focus, the quit key
\* in Main focus, the end of the key stream, or a failed draw; two quit keys
\* in a row always end it; and when it ends other than by a failed draw it
\* returns the I/O error count of the traversal and draws no more.
C20_Termination ==
    [][/\ pc = "loop" =>
            /\ (pc' = "done") <=> (Interrupt \/ (focussed = "Main" /\ Quit) \/ EndOfKeys)
            /\ pc' \in {"loop", "done", "failed"}
            /\ pc' = "failed" => draws' = 1
       /\ (recent.kind = "quit" /\ pc = "loop" /\ Quit) => pc' = "done"
       /\ pc' = "done" => (returned' = Some(tree.io_errors) /\ draws' = 0)
       /\ pc' # "done" => returned' = None
      ]_vars

\* quit left the help pane and a second quit ended the loop, which returned
\* the error count of a walk that met an error
C20_Witness ==
    /\ recent.kind = "quitTwice"
    /\ pc = "done"
    /\ draws = 0
    /\ returned = Some(1)
    /\ tree.io_errors = 1

====
